---------------------------- MODULE Spec2Model ----------------------------
(***************************************************************************)
(* Family Points (src/app.py): a Streamlit script over three Google Sheets *)
(* tabs (kids, goals, checkins).  Text is modelled as sequences of         *)
(* one-character strings so that the string handling of the code (strip,   *)
(* lower, split, startswith, astype(str)) is computed, not assumed.        *)
(*                                                                         *)
(* src/app.py line 294 ("if ops:") is indented by 6 columns inside a block *)
(* indented by 8: Python rejects the file as written.  The model reads     *)
(* lines 294-298 as part of the else branch of upsert_checkin (the         *)
(* statement and its body are both shifted by two columns), so that the    *)
(* cache clear of line 301 follows both the insert and the update.         *)
(***************************************************************************)
EXTENDS Integers, Sequences, FiniteSets, TLC

-----------------------------------------------------------------------------
(* Text *)

UPPER == <<"A","B","C","D","E","F","G","H","I","J","K","L","M",
           "N","O","P","Q","R","S","T","U","V","W","X","Y","Z">>
LOWER == <<"a","b","c","d","e","f","g","h","i","j","k","l","m",
           "n","o","p","q","r","s","t","u","v","w","x","y","z">>

UpperSet == {UPPER[i] : i \in 1..26}
LowerOf == [c \in UpperSet |-> LOWER[CHOOSE i \in 1..26 : UPPER[i] = c]]

\* str.lower() on one character
LowerChar(c) == IF c \in UpperSet THEN LowerOf[c] ELSE c

\* str.lower()
Lower(s) == [i \in 1..Len(s) |-> LowerChar(s[i])]

IsSpace(c) == c \in {" ", "\t"}

\* str.strip(): drop leading and trailing whitespace
RECURSIVE Strip(_)
Strip(s) ==
    IF s = <<>> THEN s
    ELSE IF IsSpace(Head(s)) THEN Strip(Tail(s))
    ELSE IF IsSpace(s[Len(s)]) THEN Strip(SubSeq(s, 1, Len(s) - 1))
    ELSE s

\* str.replace(a, b) for single characters
ReplaceChar(s, a, b) == [i \in 1..Len(s) |-> IF s[i] = a THEN b ELSE s[i]]

\* str.split(sep) for a one-character separator: always at least one piece
RECURSIVE SplitAt(_, _, _)
SplitAt(s, sep, cur) ==
    IF s = <<>> THEN <<cur>>
    ELSE IF Head(s) = sep THEN <<cur>> \o SplitAt(Tail(s), sep, <<>>)
    ELSE SplitAt(Tail(s), sep, Append(cur, Head(s)))

Split(s, sep) == SplitAt(s, sep, <<>>)

\* str.startswith(prefix)
StartsWith(s, p) == Len(p) <= Len(s) /\ SubSeq(s, 1, Len(p)) = p

DIGITS == <<"0","1","2","3","4","5","6","7","8","9">>

DigitSet == {DIGITS[i] : i \in 1..10}
DigitOf == [c \in DigitSet |-> (CHOOSE i \in 1..10 : DIGITS[i] = c) - 1]

IsDigit(c) == c \in DigitSet

DigitVal(c) == DigitOf[c]

\* str(n) for n >= 0: the decimal digits of n
RECURSIVE Str(_)
Str(n) == IF n < 10 THEN <<DIGITS[n + 1]>>
          ELSE Append(Str(n \div 10), DIGITS[(n % 10) + 1])

RECURSIVE DigitsVal(_)
DigitsVal(s) == IF s = <<>> THEN 0
                ELSE DigitsVal(SubSeq(s, 1, Len(s) - 1)) * 10 + DigitVal(s[Len(s)])

\* Python's None as it appears in a loaded record; no cell text equals it
None == <<"<None>">>

\* Series.astype(str) on one value: None becomes the text "None"
AsStr(v) == IF v = None THEN <<"N","o","n","e">> ELSE v

\* pd.to_numeric(errors="coerce").fillna(0).astype(int) on one cell
ToInt(v) ==
    IF v # None /\ v # <<>> /\ \A i \in 1..Len(v) : IsDigit(v[i])
    THEN DigitsVal(v) ELSE 0

\* .astype(str).str.lower().isin(["true","1","yes"])
TRUTHY == { <<"t","r","u","e">>, <<"1">>, <<"y","e","s">> }

ParseBool(v) == Lower(AsStr(v)) \in TRUTHY

\* what the sheet shows for a boolean written by append_row (RAW) or by
\* values_batch_update of str(bool) under USER_ENTERED
BoolCell(b) == IF b THEN <<"T","R","U","E">> ELSE <<"F","A","L","S","E">>

\* safe_get_all_records: a cell that is blank after strip is loaded as None
LoadCell(c) == IF Strip(c) = <<>> THEN None ELSE c

-----------------------------------------------------------------------------
(* Sheets and loaded frames *)

VARIABLES
    kids,         \* data rows of the "kids" tab (raw cell text)
    goals,        \* data rows of the "goals" tab (raw cell text)
    hasAudience,  \* whether the "goals" tab carries an "audience" column
    checkins,     \* data rows of the "checkins" tab (raw cell text)
    cache,        \* st.cache_data: the frames df_kids/df_goals/df_checkins hold
    ss,           \* st.session_state of every session
    pc,           \* where every session's script stands
    loc,          \* locals of a running upsert_checkin, per session
    today,        \* date.today()
    clock,        \* now_iso() as a logical time
    gdf,          \* what goals_for_kid returned to the goal-targeting runs
    armed,        \* history: keys whose approval a press asked to cancel
    last,         \* history: the latest upsert_checkin call and the calls of its run
    metric,       \* what the st.metric calls of the totals runs displayed
    rt,           \* a running call of a function wrapped by retry
    old           \* the SQLite variant: its database and its running script

vars == <<kids, goals, hasAudience, checkins, cache, ss, pc, loc, today, clock,
          gdf, armed, last, metric, rt, old>>

FWCOMMA == "<U+FF0C>"   \* the full-width comma, one character
COMMA   == ","

BOTH   == <<"b","o","t","h">>
CHILD  == <<"c","h","i","l","d">>
PARENT == <<"p","a","r","e","n","t">>
ALL    == <<"a","l","l">>

K1 == <<"k","1">>
K2 == <<"k","2">>
G1 == <<"g","1">>
G2 == <<"g","2">>
G3 == <<"g","3">>

\* df_goals: the loaded goals frame, one record per data row
DfGoalsRow(r, withAudience) ==
    [ id       |-> LoadCell(r.id),
      title    |-> LoadCell(r.title),
      points   |-> ToInt(LoadCell(r.points)),
      active   |-> ParseBool(LoadCell(r.active)),
      kid_id   |-> LoadCell(r.kid_id),
      audience |-> IF withAudience THEN LoadCell(r.audience) ELSE BOTH ]

df_goals(sheet, withAudience) ==
    [i \in 1..Len(sheet) |-> DfGoalsRow(sheet[i], withAudience)]

\* a variant that splits at the ASCII comma only
KidIdsAscii(v) ==
    LET parts == Split(AsStr(v), COMMA)
        F[i \in 0..Len(parts)] ==
            IF i = 0 THEN <<>>
            ELSE IF Strip(parts[i]) # <<>> THEN Append(F[i-1], Strip(parts[i]))
            ELSE F[i-1]
    IN  F[Len(parts)]

\* goals_for_kid, step 3: the trimmed non-empty entries of the kid_id value
KidIds(v) ==
    LET parts == Split(ReplaceChar(AsStr(v), FWCOMMA, COMMA), COMMA)
        F[i \in 0..Len(parts)] ==
            IF i = 0 THEN <<>>
            ELSE IF Strip(parts[i]) # <<>> THEN Append(F[i-1], Strip(parts[i]))
            ELSE F[i-1]
    IN  F[Len(parts)]

is_target(row_ids, kid_id) ==
    IF row_ids = <<>> THEN TRUE
    ELSE IF \E i \in 1..Len(row_ids) : Lower(row_ids[i]) = ALL THEN TRUE
    ELSE \E i \in 1..Len(row_ids) : row_ids[i] = kid_id

\* goals_for_kid, steps 1 and 2 on one loaded row
PyBoolStr(b) == IF b THEN <<"T","r","u","e">> ELSE <<"F","a","l","s","e">>

ActiveOk(g) == Lower(Strip(PyBoolStr(g.active))) \in TRUTHY

\* a variant that admits every audience, whoever looks
AudienceAny(g, viewer) == Lower(Strip(AsStr(g.audience))) \in {BOTH, CHILD, PARENT}

AudienceOk(g, viewer) == Lower(Strip(AsStr(g.audience))) \in {BOTH, viewer}

GoalShown(g, kid_id, viewer) ==
    /\ ActiveOk(g)
    /\ AudienceOk(g, viewer)
    /\ is_target(KidIds(g.kid_id), kid_id)

\* goals_for_kid over a loaded frame: the rows kept, in order
goals_for_kid(df, kid_id, viewer) ==
    LET F[i \in 0..Len(df)] ==
            IF i = 0 THEN <<>>
            ELSE IF GoalShown(df[i], kid_id, viewer) THEN Append(F[i-1], df[i])
            ELSE F[i-1]
    IN  F[Len(df)]

-----------------------------------------------------------------------------
(* Dates *)

\* the calendar days the model distinguishes, as <<year, month, day>>
DATES == << <<2024, 1, 31>>, <<2024, 11, 1>> >>

Pad2(n) == IF n < 10 THEN <<"0">> \o Str(n) ELSE Str(n)

\* date.isoformat(): 'YYYY-MM-DD'
Iso(d) == Str(d[1]) \o <<"-">> \o Pad2(d[2]) \o <<"-">> \o Pad2(d[3])

\* date.strftime("%Y-%m"): 'YYYY-MM'
YearMonth(d) == Str(d[1]) \o <<"-">> \o Pad2(d[2])

\* now_iso() at logical time t
now_iso(t) == <<"T">> \o Str(t)

-----------------------------------------------------------------------------
(* Check-ins *)

\* an optional boolean argument: {} is None, {b} is b
NoArg == {}
Given(a) == a # {}
ArgVal(a) == CHOOSE b \in a : TRUE

DfCheckinsRow(r) ==
    [ date            |-> LoadCell(r.date),
      kid_id          |-> LoadCell(r.kid_id),
      kid_name        |-> LoadCell(r.kid_name),
      goal_id         |-> LoadCell(r.goal_id),
      goal_title      |-> LoadCell(r.goal_title),
      points          |-> ToInt(LoadCell(r.points)),
      child_checked   |-> ParseBool(LoadCell(r.child_checked)),
      parent_approved |-> ParseBool(LoadCell(r.parent_approved)),
      updated_at      |-> LoadCell(r.updated_at) ]

\* df_checkins without the cache: the loaded frame of a sheet
LoadCheckins(sheet) == [i \in 1..Len(sheet) |-> DfCheckinsRow(sheet[i])]

KeyMatch(r, d, k, g) == r.date = d /\ r.kid_id = k /\ r.goal_id = g

\* the first row of the frame with the key, 0 when there is none
\* (df[mask].index[0] + 1, hit.iloc[0])
FirstHit(df, d, k, g) ==
    IF \E i \in 1..Len(df) : KeyMatch(df[i], d, k, g)
    THEN CHOOSE i \in 1..Len(df) :
            /\ KeyMatch(df[i], d, k, g)
            /\ \A j \in 1..(i-1) : ~KeyMatch(df[j], d, k, g)
    ELSE 0

\* today_check_state, and the same lookup of the parent view for another day:
\* <<child_checked, parent_approved>> of the first row with the key
check_state(df, d, k, g) ==
    LET h == FirstHit(df, d, k, g)
    IN  IF h = 0 THEN <<FALSE, FALSE>>
        ELSE <<df[h].child_checked, df[h].parent_approved>>

\* the arguments of one upsert_checkin call
UpsertArgs(d, k, kid_name, g, goal_title, points, set_child, set_parent) ==
    [ date |-> AsStr(d), kid_id |-> AsStr(k), kid_name |-> kid_name,
      goal_id |-> AsStr(g), goal_title |-> goal_title, points |-> points,
      set_child |-> set_child, set_parent |-> set_parent ]

\* upsert_checkin, insert branch: the row append_row writes
NewRow(a, now) ==
    [ date            |-> a.date,
      kid_id          |-> a.kid_id,
      kid_name        |-> a.kid_name,
      goal_id         |-> a.goal_id,
      goal_title      |-> a.goal_title,
      points          |-> Str(a.points),
      child_checked   |-> BoolCell(IF Given(a.set_child) THEN ArgVal(a.set_child) ELSE FALSE),
      parent_approved |-> BoolCell(IF Given(a.set_parent) THEN ArgVal(a.set_parent) ELSE FALSE),
      updated_at      |-> now ]

\* a variant of the update that rewrites the whole row from the arguments
RewrittenRow(r, a, now) ==
    [ NewRow(a, now) EXCEPT
        !.child_checked   = IF Given(a.set_child) THEN @ ELSE r.child_checked,
        !.parent_approved = IF Given(a.set_parent) THEN @ ELSE r.parent_approved ]

\* upsert_checkin, update branch: the cells values_batch_update writes in a row
UpdatedRow(r, a, now) ==
    [ r EXCEPT
        !.child_checked   = IF Given(a.set_child) THEN BoolCell(ArgVal(a.set_child)) ELSE @,
        !.parent_approved = IF Given(a.set_parent) THEN BoolCell(ArgVal(a.set_parent)) ELSE @,
        !.updated_at      = now ]

\* a variant of the write that looks the key up in the sheet as it writes
WriteLooked(sheet, hit, a, now) ==
    LET h == FirstHit(sheet, a.date, a.kid_id, a.goal_id)
    IN  IF h = 0
        THEN Append(sheet, NewRow(a, now))
        ELSE [sheet EXCEPT ![h] = UpdatedRow(@, a, now)]

\* upsert_checkin, the write: hit is the row found in the frame that was read
\* (0: none, append_row; h: sheet row h + 1, values_batch_update)
WriteCheckin(sheet, hit, a, now) ==
    IF hit = 0
    THEN Append(sheet, NewRow(a, now))
    ELSE [sheet EXCEPT ![hit] = UpdatedRow(@, a, now)]

\* a variant of the lookup that never finds the key
NoHit(df, a) == 0

\* upsert_checkin, the lookup in the frame df_checkins returned
UpsertHit(df, a) == FirstHit(df, a.date, a.kid_id, a.goal_id)

\* Series.sum() of the points column
RECURSIVE SumPoints(_)
SumPoints(rows) == IF rows = <<>> THEN 0 ELSE Head(rows).points + SumPoints(Tail(rows))

\* a variant that counts every row a parent approved
ApprovedByParent(r) == r.parent_approved

Approved(r) == r.child_checked /\ r.parent_approved

monthly_total(df, kid_id, target_month) ==
    IF df = <<>> THEN 0
    ELSE LET m1 == SelectSeq(df, LAMBDA r : r.kid_id = kid_id)
             m2 == SelectSeq(m1, LAMBDA r : StartsWith(r.date, target_month))
             m3 == SelectSeq(m2, Approved)
         IN  SumPoints(m3)

total_points_alltime(df, kid_id) ==
    IF df = <<>> THEN 0
    ELSE SumPoints(SelectSeq(df, LAMBDA r : r.kid_id = kid_id /\ Approved(r)))

-----------------------------------------------------------------------------
(* Kids, seeding, the data cache *)

SESSIONS == {"A", "B"}

DfKidsRow(r) ==
    [ id |-> LoadCell(r.id), name |-> LoadCell(r.name),
      grade |-> LoadCell(r.grade), active |-> LoadCell(r.active) ]

LoadKids(sheet) == [i \in 1..Len(sheet) |-> DfKidsRow(sheet[i])]

\* the rows seed_if_empty appends (names romanised)
DefaultKids ==
    << [id |-> K1, name |-> <<"S","o","t","a">>, grade |-> <<"N">>, active |-> BoolCell(TRUE)],
       [id |-> K2, name |-> <<"M","i","o">>, grade |-> <<"1">>, active |-> BoolCell(TRUE)] >>

SeedGoal(id, title, points) ==
    [ id |-> id, title |-> title, points |-> Str(points), active |-> BoolCell(TRUE),
      kid_id |-> <<>>, audience |-> <<>> ]

DefaultGoals ==
    << SeedGoal(G1, <<"R","u","n">>, 3),
       SeedGoal(G2, <<"H","w">>, 5),
       SeedGoal(G3, <<"T","e","e","t","h">>, 2) >>

\* the active kids of the start-up code, in sheet order (the values of kid_map)
kid_map(kdf) == SelectSeq(kdf, LAMBDA r : Lower(AsStr(r.active)) = <<"t","r","u","e">>)

NoSlot == [valid |-> FALSE, df |-> <<>>]
NoCache == [kids |-> NoSlot, goals |-> NoSlot, checkins |-> NoSlot]

\* df_kids / df_goals / df_checkins under st.cache_data: the cached frame when
\* there is one, else a load of the sheet
GetKids(w) == IF w.cache.kids.valid THEN w.cache.kids.df ELSE LoadKids(w.kids)
GetGoals(w) ==
    IF w.cache.goals.valid THEN w.cache.goals.df ELSE df_goals(w.goals, hasAudience)
df_checkins(w) ==
    IF w.cache.checkins.valid THEN w.cache.checkins.df ELSE LoadCheckins(w.checkins)

\* the cache after the call
FillKids(w) == [w EXCEPT !.cache.kids = [valid |-> TRUE, df |-> GetKids(w)]]
FillGoals(w) == [w EXCEPT !.cache.goals = [valid |-> TRUE, df |-> GetGoals(w)]]
FillCheckins(w) == [w EXCEPT !.cache.checkins = [valid |-> TRUE, df |-> df_checkins(w)]]
FillAll(w) == FillCheckins(FillGoals(FillKids(w)))

\* st.cache_data.clear()
ClearCache(w) == [w EXCEPT !.cache = NoCache]

seed_if_empty(w) ==
    IF w.st.seeded THEN w
    ELSE LET w1 == FillKids(w)
             w2 == IF GetKids(w1) = <<>>
                   THEN [w1 EXCEPT !.kids = @ \o DefaultKids] ELSE w1
             w3 == FillGoals(w2)
             w4 == IF GetGoals(w3) = <<>>
                   THEN [w3 EXCEPT !.goals = @ \o DefaultGoals] ELSE w3
         IN  ClearCache([w4 EXCEPT !.st.seeded = TRUE])

\* module-level start-up: df_kids, the active filter, st.stop() on an empty
\* kid_map, then seed_if_empty
Startup(w) ==
    LET w1 == FillKids(w)
    IN  IF kid_map(GetKids(w1)) = <<>>
        THEN [w1 EXCEPT !.stopped = TRUE]
        ELSE seed_if_empty([w1 EXCEPT !.stopped = FALSE])

\* a variant of upsert_checkin that leaves the data cache as it is
UpsertNoClear(w, a, now) ==
    LET w1 == FillCheckins(w)
    IN  [w1 EXCEPT
            !.checkins = WriteCheckin(@, UpsertHit(df_checkins(w1), a), a, now),
            !.last = [a |-> a, n |-> w.calls + 1],
            !.calls = @ + 1]

\* upsert_checkin as one call: read the frame, write, clear the cache
Upsert(w, a, now) ==
    LET w1 == FillCheckins(w)
    IN  ClearCache([w1 EXCEPT
            !.checkins = WriteCheckin(@, UpsertHit(df_checkins(w1), a), a, now),
            !.last = [a |-> a, n |-> w.calls + 1],
            !.calls = @ + 1])

-----------------------------------------------------------------------------
(* One run of the script for one session.  A run works on a record w: the  *)
(* three sheets, the data cache, the session's st.session_state (st), the  *)
(* values its widgets return in this run (in), whether the run ended at    *)
(* the st.stop() of the start-up, and the history set armed.  No parent    *)
(* passcode is configured.                                                 *)

AUTO == <<"a","u","t","o">>
ROLE_CHILD == "child"
ROLE_PARENT == "parent"
FORCED == {AUTO, CHILD}

\* what the widgets of a run return: the role radio, the position chosen in
\* the kid selectbox, the date input, the audience filter, the pending box
Inputs(role, kid, target, forced, pending) ==
    [role |-> role, kid |-> kid, target |-> target, forced |-> forced, pending |-> pending]

ChildInputs == {Inputs(ROLE_CHILD, k, today, AUTO, FALSE) : k \in 1..2}

ParentInputs ==
    {Inputs(ROLE_PARENT, k, DATES[d], f, p) :
        k \in 1..2, d \in 1..Len(DATES), f \in FORCED, p \in BOOLEAN}

\* the inputs of a run in which no widget fires: what is drawn, and so what
\* is read, depends on the role, the target date and the pending toggle
ViewInputs == ChildInputs \cup {in \in ParentInputs : in.kid = 1 /\ in.forced = AUTO}

World(s, in) ==
    [ kids |-> kids, goals |-> goals, checkins |-> checkins, cache |-> cache,
      st |-> ss[s], in |-> in, stopped |-> FALSE, armed |-> armed,
      last |-> last, calls |-> 0 ]

\* the selectbox: the chosen row of kid_map (the first when the position is
\* past the options)
SelKid(w) ==
    LET km == kid_map(GetKids(w))
    IN  IF w.in.kid \in 1..Len(km) THEN km[w.in.kid] ELSE km[1]

\* viewer of goals_for_kid: "child" in the child view; in the parent view
\* "parent", replaced by the audience filter when one is chosen
Viewer(in) ==
    IF in.role = ROLE_CHILD THEN CHILD
    ELSE IF in.forced = AUTO THEN PARENT ELSE in.forced

\* gdf of the run
Shown(w) == goals_for_kid(GetGoals(w), SelKid(w).id, Viewer(w.in))

\* the parent view ends at st.stop() inside the pending list
InPendingList(w) ==
    w.in.role = ROLE_PARENT /\ w.in.pending /\ df_checkins(w) # <<>>

\* df_pending of the parent view
PendingRows(df, kid_id) ==
    SelectSeq(df, LAMBDA r : r.kid_id = kid_id /\ r.child_checked /\ ~r.parent_approved)

\* the run up to the point where the view has its goals and check-ins
Opened(w) ==
    LET w1 == Startup(w)
    IN  IF w1.stopped THEN w1 ELSE FillCheckins(FillGoals(w1))

\* a run in which no widget fires: start-up, the view, the export expander
Render(w) ==
    LET w1 == Opened(w)
    IN  IF w1.stopped \/ InPendingList(w1) THEN w1 ELSE FillAll(w1)

KeyOf(a) == <<a.date, a.kid_id, a.goal_id>>

\* child view: the upsert_checkin call made when the checkbox of goal g flips
ChildArgs(w, g, day) ==
    LET kid == SelKid(w)
        ch  == check_state(df_checkins(w), Iso(day), kid.id, g.id)[1]
    IN  UpsertArgs(Iso(day), kid.id, AsStr(kid.name), g.id, g.title, g.points, {~ch}, NoArg)

ChildToggle(w, g, day, now) == FillAll(Upsert(w, ChildArgs(w, g, day), now))

\* parent view: ap of the state_map for goal g
ParentAp(w, g) == check_state(df_checkins(w), Iso(w.in.target), SelKid(w).id, g.id)[2]

\* parent view: the upsert_checkin call of the approve / cancel button of g
ParentArgs(w, g) ==
    LET kid == SelKid(w)
    IN  UpsertArgs(Iso(w.in.target), kid.id, AsStr(kid.name), g.id, g.title, g.points,
                   NoArg, {~ParentAp(w, g)})

\* parent view: the approve / cancel button of goal g; a first press on an
\* approved goal only sets confirm_unapprove_<goal id>, the next press of the
\* goal's button pops it
ParentButton(w, g, now) ==
    IF ParentAp(w, g) /\ g.id \notin w.st.confirm
    THEN FillAll([w EXCEPT !.st.confirm = @ \cup {g.id},
                           !.armed = @ \cup {KeyOf(ParentArgs(w, g))}])
    ELSE Render(Upsert([w EXCEPT !.st.confirm = @ \ {g.id},
                                 !.armed = {k \in @ : k[3] # g.id}],
                       ParentArgs(w, g), now))

\* a variant of the loop that approves every displayed goal not yet approved
RECURSIVE BulkLoopAll(_, _, _, _, _)
BulkLoopAll(w, shown, state_df, kid, now) ==
    IF shown = <<>> THEN w
    ELSE LET g  == Head(shown)
             cs == check_state(state_df, Iso(w.in.target), kid.id, g.id)
             a  == UpsertArgs(Iso(w.in.target), kid.id, AsStr(kid.name), g.id,
                              g.title, g.points, NoArg, {TRUE})
             w1 == IF ~cs[2] THEN Upsert(w, a, now) ELSE w
         IN  BulkLoopAll(w1, Tail(shown), state_df, kid, now)

\* parent view, bulk approval: the loop over gdf with the state_map of the run
RECURSIVE BulkLoop(_, _, _, _, _)
BulkLoop(w, shown, state_df, kid, now) ==
    IF shown = <<>> THEN w
    ELSE LET g  == Head(shown)
             cs == check_state(state_df, Iso(w.in.target), kid.id, g.id)
             a  == UpsertArgs(Iso(w.in.target), kid.id, AsStr(kid.name), g.id,
                              g.title, g.points, NoArg, {TRUE})
             w1 == IF cs[1] /\ ~cs[2] THEN Upsert(w, a, now) ELSE w
         IN  BulkLoop(w1, Tail(shown), state_df, kid, now)

BulkButton(w, now) ==
    Render(ClearCache(BulkLoop(w, Shown(w), df_checkins(w), SelKid(w), now)))

\* parent view, pending list: the approve button of row r of df_pending
PendingButton(w, r, now) ==
    LET kid == SelKid(w)
        a   == UpsertArgs(r.date, kid.id, AsStr(kid.name), r.goal_id, r.goal_title,
                          r.points, NoArg, {TRUE})
    IN  Render(ClearCache(Upsert(w, a, now)))

-----------------------------------------------------------------------------
(* The application used by one session *)

MaxClock == 3     \* logical time stops here: a behaviour makes MaxClock - 1 writes

MainSession == "A"

\* a goals tab with an audience column: g1 for everyone, g2 for both kids in
\* the child view only, g3 with a blank kid_id
MainGoals ==
    << [id |-> G1, title |-> <<"R","u","n">>, points |-> Str(3), active |-> BoolCell(TRUE),
        kid_id |-> <<"A","l","l">>, audience |-> BOTH],
       [id |-> G2, title |-> <<"H","w">>, points |-> Str(5), active |-> <<"y","e","s">>,
        kid_id |-> <<"k","2",FWCOMMA," ","k","1">>, audience |-> CHILD],
       [id |-> G3, title |-> <<"T","e","e","t","h">>, points |-> Str(2), active |-> BoolCell(TRUE),
        kid_id |-> <<>>, audience |-> BOTH] >>

\* a row written earlier, when the kid and the goal had another name and value
OldRow(d, k, g, ch, ap) ==
    [ date |-> Iso(d), kid_id |-> k, kid_name |-> <<"O","l","d">>, goal_id |-> g,
      goal_title |-> <<"W","a","l","k">>, points |-> Str(12),
      child_checked |-> BoolCell(ch), parent_approved |-> BoolCell(ap),
      updated_at |-> now_iso(0) ]

\* a used check-ins tab: two rows with one key (left by two sessions that
\* raced), the first of them approved
UsedCheckins ==
    << OldRow(DATES[1], K1, G1, TRUE, TRUE), OldRow(DATES[1], K1, G1, FALSE, FALSE) >>

InitSession == [seeded |-> FALSE, confirm |-> {}]

NoLast == [a |-> UpsertArgs(<<>>, <<>>, <<>>, <<>>, <<>>, <<>>, NoArg, NoArg), n |-> 0]

NoLoc == [a |-> NoLast.a, hit |-> 0, absent |-> FALSE]

NoRetry == [times |-> 0, i |-> 0, state |-> "idle", last |-> {}, out |-> {}, hist |-> <<>>]

\* the SQLite variant before init_db: no table has a row, no script runs
NoDb == [kids |-> <<>>, goals |-> <<>>, checkins |-> <<>>, seq |-> 0,
         day |-> 1, pc |-> "idle", left |-> 0,
         d |-> <<>>, kid_ids |-> <<>>, goal_ids |-> <<>>,
         hit |-> {}, made |-> {}, n |-> 0]

NoMetric == [called |-> FALSE, kid |-> <<>>, month |-> <<>>, monthly |-> 0, alltime |-> 0]

NoGdf == [called |-> FALSE, kid |-> <<>>, viewer |-> <<>>, ids |-> <<>>]

\* the state before the first run, over a given check-ins tab
InitWith(sheet) ==
    /\ kids = DefaultKids
    /\ goals = MainGoals
    /\ hasAudience = TRUE
    /\ checkins = sheet
    /\ cache = NoCache
    /\ ss = [s \in SESSIONS |-> InitSession]
    /\ pc = [s \in SESSIONS |-> "idle"]
    /\ loc = [s \in SESSIONS |-> NoLoc]
    /\ today = DATES[1]
    /\ clock = 1
    /\ gdf = NoGdf
    /\ armed = {}
    /\ last = NoLast
    /\ metric = NoMetric
    /\ rt = NoRetry
    /\ old = NoDb

Init == InitWith(<<>>)

InitUsed == InitWith(UsedCheckins)

GoalIds(shown) == [i \in 1..Len(shown) |-> shown[i].id]

\* the state after a run of session s that ended in w
Commit(s, w) ==
    /\ kids' = w.kids
    /\ goals' = w.goals
    /\ checkins' = w.checkins
    /\ cache' = w.cache
    /\ ss' = [ss EXCEPT ![s] = w.st]
    /\ armed' = w.armed
    /\ last' = w.last
    /\ clock' = IF w.checkins # checkins THEN clock + 1 ELSE clock
    /\ UNCHANGED <<hasAudience, pc, loc, today, gdf, metric, rt, old>>

\* a run in which no widget writes: the page is drawn for the inputs
View(s, in) ==
    \E w2 \in {Render(World(s, in))} : Commit(s, w2)

\* a run of the child view in which the checkbox of one goal flips
ChildCheck(s, in) ==
    /\ clock < MaxClock
    /\ \E w \in {Opened(World(s, in))} :
        /\ ~w.stopped
        /\ \E shown \in {Shown(w)} : \E i \in 1..Len(shown) :
            \E w2 \in {ChildToggle(w, shown[i], today, now_iso(clock))} : Commit(s, w2)

\* a run of the parent view in which the button of one goal is pressed
ParentPress(s, in) ==
    /\ clock < MaxClock
    /\ \E w \in {Opened(World(s, in))} :
        /\ ~w.stopped
        /\ ~InPendingList(w)
        /\ \E shown \in {Shown(w)} : \E i \in 1..Len(shown) :
            \E w2 \in {ParentButton(w, shown[i], now_iso(clock))} : Commit(s, w2)

\* a run of the parent view in which the bulk approval button is pressed
BulkApprove(s, in) ==
    /\ clock < MaxClock
    /\ \E w \in {Opened(World(s, in))} :
        /\ ~w.stopped
        /\ ~InPendingList(w)
        /\ \E w2 \in {BulkButton(w, now_iso(clock))} : Commit(s, w2)

\* the keys of the pending buttons are distinct (else the run fails as it
\* draws them)
PendingKeysDistinct(p) ==
    \A i, j \in 1..Len(p) :
        (p[i].date = p[j].date /\ p[i].goal_id = p[j].goal_id) => i = j

\* a run of the pending list in which the button of one row is pressed
PendingApprove(s, in) ==
    /\ clock < MaxClock
    /\ \E w \in {Opened(World(s, in))} :
        /\ ~w.stopped
        /\ InPendingList(w)
        /\ \E p \in {PendingRows(df_checkins(w), SelKid(w).id)} :
            /\ PendingKeysDistinct(p)
            /\ \E j \in 1..Len(p) :
                  \E w2 \in {PendingButton(w, p[j], now_iso(clock))} : Commit(s, w2)

\* midnight passes
AdvanceDay ==
    /\ \E i \in 1..(Len(DATES) - 1) : today = DATES[i] /\ today' = DATES[i + 1]
    /\ UNCHANGED <<kids, goals, hasAudience, checkins, cache, ss, pc, loc, clock, gdf, armed, last, metric, rt, old>>

\* the 20 seconds of st.cache_data(ttl=20) pass: the frames one run cached
\* within the same instant expire together
CacheExpire ==
    /\ cache # NoCache
    /\ cache' = NoCache
    /\ UNCHANGED <<kids, goals, hasAudience, checkins, ss, pc, loc, today, clock, gdf, armed, last, metric, rt, old>>

Next ==
    \/ \E in \in ViewInputs : View(MainSession, in)
    \/ \E in \in ChildInputs : ChildCheck(MainSession, in)
    \/ \E in \in ParentInputs : ParentPress(MainSession, in)
    \/ \E in \in ParentInputs : BulkApprove(MainSession, in)
    \/ \E in \in ParentInputs : PendingApprove(MainSession, in)
    \/ AdvanceDay
    \/ CacheExpire

\* the application started on an empty check-ins tab
Spec == Init /\ [][Next]_vars

\* the application started on a used check-ins tab
SpecUsed == InitUsed /\ [][Next]_vars

-----------------------------------------------------------------------------
(* Claims about the application used by one session *)

\* the frame the next df_checkins call returns
NextRead == df_checkins([cache |-> cache, checkins |-> checkins])

RawKey(r) == <<r.date, r.kid_id, r.goal_id>>

KeyCount(sheet, key) == Cardinality({i \in 1..Len(sheet) : RawKey(sheet[i]) = key})

NoDup(sheet) == \A i, j \in 1..Len(sheet) : RawKey(sheet[i]) = RawKey(sheet[j]) => i = j

\* the cell, read as text: true, 1 or yes in any letter case
CellTruthy(c) == Lower(c) \in TRUTHY

\* C2: from a sheet with at most one row per (date, kid_id, goal_id), the calls
\* of one session leave at most one row per key: rows keep their place and
\* key, and a run that makes one call appends nothing when the key of the call
\* exists and exactly one row when it does not.
C2Theorem ==
    [][ (NoDup(checkins) /\ checkins' # checkins) =>
          /\ NoDup(checkins')
          /\ Len(checkins') >= Len(checkins)
          /\ \A i \in 1..Len(checkins) : RawKey(checkins'[i]) = RawKey(checkins[i])
          /\ last'.n = 1 =>
                Len(checkins') =
                    Len(checkins) + (IF KeyCount(checkins, KeyOf(last'.a)) = 0 THEN 1 ELSE 0)
      ]_vars

\* a key was inserted by one call and its row updated by a later one: the
\* sheet has a row with both flags and no key twice
C2Witness ==
    /\ NoDup(checkins)
    /\ \E i \in 1..Len(checkins) :
          CellTruthy(checkins[i].child_checked) /\ CellTruthy(checkins[i].parent_approved)

\* parent_approved of the check-in the views show for a key
ApprovedIn(sheet, key) == check_state(LoadCheckins(sheet), key[1], key[2], key[3])[2]

ALL_KEYS == {<<Iso(DATES[d]), k, g>> : d \in 1..Len(DATES), k \in {K1, K2}, g \in {G1, G2, G3}}

\* C7: an approval is cancelled only by the second press of the goal's button
\* for that kid and date: a step that un-approves a check-in follows a first
\* press on the same kid, date and goal.
C7Claim ==
    [][ checkins' # checkins =>
          \A key \in ALL_KEYS :
              (ApprovedIn(checkins, key) /\ ~ApprovedIn(checkins', key)) => key \in armed
      ]_vars

\* the flags today_check_state reads for the key of the latest call
ReadBack == check_state(NextRead, last.a.date, last.a.kid_id, last.a.goal_id)

\* C8: once a call has completed and until the next one, the cache holds no
\* stale check-ins and a read for the key of the call returns the flags the
\* call was given, also when the key has two rows: the row updated is the
\* first match, the one today_check_state reads.
C8Theorem ==
    /\ cache.checkins.valid => cache.checkins.df = LoadCheckins(checkins)
    /\ last.n > 0 =>
          /\ Given(last.a.set_child) => ReadBack[1] = ArgVal(last.a.set_child)
          /\ Given(last.a.set_parent) => ReadBack[2] = ArgVal(last.a.set_parent)

\* the key with two rows was written while the check-ins were cached: its
\* first row carries the write, its second row is as it was, and the cache
\* holds the sheet as written
C8Witness ==
    /\ Len(checkins) >= 2
    /\ RawKey(checkins[1]) = RawKey(checkins[2])
    /\ checkins[1].updated_at # now_iso(0)
    /\ checkins[2].updated_at = now_iso(0)
    /\ KeyOf(last.a) = RawKey(checkins[1])
    /\ cache.checkins.valid
    /\ cache.checkins.df = LoadCheckins(checkins)

\* the columns upsert_checkin never rewrites
Fixed(r) == <<r.date, r.kid_id, r.kid_name, r.goal_id, r.goal_title, r.points>>

\* the sheet after one call with arguments a at time t, told from the sheet
\* before: the first row of the key gets the given flag and the time, or a
\* row is appended whose other flag is false
OneCall(a, t) ==
    LET h == FirstHit(LoadCheckins(checkins), a.date, a.kid_id, a.goal_id)
        n == Len(checkins)
    IN  IF h # 0
        THEN /\ Len(checkins') = n
             /\ \A j \in 1..n : j # h => checkins'[j] = checkins[j]
             /\ Fixed(checkins'[h]) = Fixed(checkins[h])
             /\ checkins'[h].updated_at = t
             /\ checkins'[h].child_checked =
                   IF Given(a.set_child) THEN BoolCell(ArgVal(a.set_child))
                   ELSE checkins[h].child_checked
             /\ checkins'[h].parent_approved =
                   IF Given(a.set_parent) THEN BoolCell(ArgVal(a.set_parent))
                   ELSE checkins[h].parent_approved
        ELSE /\ Len(checkins') = n + 1
             /\ \A j \in 1..n : checkins'[j] = checkins[j]
             /\ checkins'[n + 1].child_checked =
                   BoolCell(Given(a.set_child) /\ ArgVal(a.set_child))
             /\ checkins'[n + 1].parent_approved =
                   BoolCell(Given(a.set_parent) /\ ArgVal(a.set_parent))

\* C9: a call that finds a row for its key changes only the given flag and
\* updated_at of that row: the other flag, date, kid_id, kid_name, goal_id,
\* goal_title and points stay, whatever name, title and points the call
\* passes, the row count stays and every other row stays; a call that inserts
\* stores the flag it was not given as false.
C9Theorem ==
    [][ checkins' # checkins =>
          /\ Len(checkins') >= Len(checkins)
          /\ \A j \in 1..Len(checkins) : Fixed(checkins'[j]) = Fixed(checkins[j])
          /\ last'.n = 1 => OneCall(last'.a, now_iso(clock))
      ]_vars

\* a row written under another kid name, goal title and points was updated by
\* a call that passed the present ones, and a row was inserted by a call that
\* gave one flag
C9Witness ==
    /\ \E j \in 1..Len(checkins) :
          /\ checkins[j].kid_name = <<"O","l","d">>
          /\ checkins[j].updated_at # now_iso(0)
    /\ \E j \in 1..Len(checkins) :
          /\ checkins[j].kid_name # <<"O","l","d">>
          /\ checkins[j].child_checked # checkins[j].parent_approved

-----------------------------------------------------------------------------
(* Two sessions in upsert_checkin.  The call is three steps: the lookup in *)
(* the frame df_checkins returns, the write to the sheet, the cache clear. *)

\* the calls the two sessions make
RaceCalls ==
    { UpsertArgs(Iso(DATES[1]), k, <<"S">>, g, <<"R">>, 3, f[1], f[2]) :
        k \in {K1, K2}, g \in {G1, G2}, f \in { <<{TRUE}, NoArg>>, <<NoArg, {TRUE}>> } }

InitRace == InitWith(<<>>) \/ InitWith(<< OldRow(DATES[1], K1, G1, TRUE, FALSE) >>)

\* lines 249-258: df = df_checkins(), mask, hit
RaceRead(s, a) ==
    /\ pc[s] = "idle"
    /\ \E w \in {FillCheckins([cache |-> cache, checkins |-> checkins])} :
          /\ cache' = w.cache
          /\ loc' = [loc EXCEPT ![s] = [a |-> a, hit |-> UpsertHit(df_checkins(w), a),
                                         absent |-> KeyCount(checkins, KeyOf(a)) = 0]]
    /\ pc' = [pc EXCEPT ![s] = "read"]
    /\ UNCHANGED <<kids, goals, hasAudience, checkins, ss, today, clock, gdf, armed, last, metric, rt, old>>

\* lines 260-298: append_row, or values_batch_update on the row found
RaceWrite(s) ==
    /\ pc[s] = "read"
    /\ checkins' = WriteCheckin(checkins, loc[s].hit, loc[s].a, now_iso(clock))
    /\ clock' = clock + 1
    /\ pc' = [pc EXCEPT ![s] = "written"]
    /\ UNCHANGED <<kids, goals, hasAudience, cache, ss, loc, today, gdf, armed, last, metric, rt, old>>

\* line 301: st.cache_data.clear()
RaceClear(s) ==
    /\ pc[s] = "written"
    /\ cache' = ClearCache([cache |-> cache]).cache
    /\ pc' = [pc EXCEPT ![s] = "done"]
    /\ UNCHANGED <<kids, goals, hasAudience, checkins, ss, loc, today, clock, gdf, armed, last, metric, rt, old>>

NextRace ==
    \/ \E s \in SESSIONS, a \in RaceCalls : RaceRead(s, a)
    \/ \E s \in SESSIONS : RaceWrite(s)
    \/ \E s \in SESSIONS : RaceClear(s)
    \/ CacheExpire

SpecRace == InitRace /\ [][NextRace]_vars

Wrote(s) == pc[s] \in {"written", "done"}

\* C6: two sessions call upsert_checkin for one key; when the key was not in
\* the sheet at the lookup of either, both take the insert branch and, once
\* both have written, the sheet has two rows for the key.
C6Theorem ==
    \A s, t \in SESSIONS :
        (s # t /\ Wrote(s) /\ Wrote(t) /\ KeyOf(loc[s].a) = KeyOf(loc[t].a)
            /\ loc[s].absent /\ loc[t].absent)
        => /\ loc[s].hit = 0 /\ loc[t].hit = 0
           /\ KeyCount(checkins, KeyOf(loc[s].a)) = 2

\* both sessions looked for a key that was not in the sheet, both have
\* finished the call, and the key has two rows
C6Witness ==
    /\ pc["A"] = "done" /\ pc["B"] = "done"
    /\ KeyOf(loc["A"].a) = KeyOf(loc["B"].a)
    /\ loc["A"].absent /\ loc["B"].absent
    /\ KeyCount(checkins, KeyOf(loc["A"].a)) = 2

-----------------------------------------------------------------------------
(* Start-up and seeding.  The owner of the spreadsheet edits the tabs by   *)
(* hand between the runs of the sessions.                                  *)

MaxEdits == 2     \* the owner makes at most MaxEdits edits by hand

InitSeed ==
    /\ kids \in {<<>>, DefaultKids}
    /\ goals \in {<<>>, MainGoals}
    /\ hasAudience = TRUE
    /\ checkins = <<>>
    /\ cache = NoCache
    /\ ss = [s \in SESSIONS |-> InitSession]
    /\ pc = [s \in SESSIONS |-> "idle"]
    /\ loc = [s \in SESSIONS |-> NoLoc]
    /\ today = DATES[1]
    /\ clock = 0
    /\ gdf = NoGdf
    /\ armed = {}
    /\ last = NoLast
    /\ metric = NoMetric
    /\ rt = NoRetry
    /\ old = NoDb

\* the owner types the next kid into the kids tab
OwnerTypesKid ==
    /\ Len(kids) < Len(DefaultKids)
    /\ clock < MaxEdits
    /\ kids' = Append(kids, DefaultKids[Len(kids) + 1])
    /\ clock' = clock + 1
    /\ UNCHANGED <<goals, hasAudience, checkins, cache, ss, pc, loc, today, gdf, armed, last, metric, rt, old>>

\* the owner deletes the data rows of the goals tab
OwnerClearsGoals ==
    /\ goals # <<>>
    /\ clock < MaxEdits
    /\ goals' = <<>>
    /\ clock' = clock + 1
    /\ UNCHANGED <<kids, hasAudience, checkins, cache, ss, pc, loc, today, gdf, armed, last, metric, rt, old>>

\* the owner types a goal into an empty goals tab
OwnerTypesGoal ==
    /\ goals = <<>>
    /\ clock < MaxEdits
    /\ goals' = <<MainGoals[1]>>
    /\ clock' = clock + 1
    /\ UNCHANGED <<kids, hasAudience, checkins, cache, ss, pc, loc, today, gdf, armed, last, metric, rt, old>>

NextSeed ==
    \/ \E s \in SESSIONS, in \in ViewInputs : View(s, in)
    \/ OwnerTypesKid
    \/ OwnerClearsGoals
    \/ OwnerTypesGoal
    \/ CacheExpire

SpecSeed == InitSeed /\ [][NextSeed]_vars

\* C10: a run on a kids tab without data rows reaches seed_if_empty and
\* appends the two default kids.
C10Claim ==
    [][ (kids = <<>> /\ \E s \in SESSIONS, in \in ChildInputs : View(s, in))
            => kids' = DefaultKids
      ]_vars

-----------------------------------------------------------------------------
(* The totals.  monthly_total and total_points_alltime are functions of    *)
(* the check-ins tab: the tab is drawn from the rows below and the child   *)
(* view's two metrics are computed on it.                                  *)

MaxRows == 2      \* the check-ins tab holds at most MaxRows rows

FLAG_PAIRS == { <<TRUE, TRUE>>, <<TRUE, FALSE>>, <<FALSE, TRUE>> }

TotalsRow(d, k, pts, f) ==
    [ date |-> Iso(d), kid_id |-> k, kid_name |-> <<"S">>, goal_id |-> G1,
      goal_title |-> <<"R">>, points |-> Str(pts),
      child_checked |-> BoolCell(f[1]), parent_approved |-> BoolCell(f[2]),
      updated_at |-> now_iso(0) ]

TOTALS_ROWS ==
    { TotalsRow(DATES[d], k, pts, f) :
        d \in 1..Len(DATES), k \in {K1, K2}, pts \in {3, 12}, f \in FLAG_PAIRS }

InitTotals ==
    /\ kids = DefaultKids
    /\ goals = MainGoals
    /\ hasAudience = TRUE
    /\ \E n \in 0..MaxRows : checkins \in [1..n -> TOTALS_ROWS]
    /\ cache = NoCache
    /\ ss = [s \in SESSIONS |-> InitSession]
    /\ pc = [s \in SESSIONS |-> "idle"]
    /\ loc = [s \in SESSIONS |-> NoLoc]
    /\ today = DATES[1]
    /\ clock = 1
    /\ gdf = NoGdf
    /\ armed = {}
    /\ last = NoLast
    /\ metric = NoMetric
    /\ rt = NoRetry
    /\ old = NoDb

\* the two metrics of the child view for kid k in the month of day d
TotalsView(k, d) ==
    /\ \E w \in {FillCheckins([cache |-> cache, checkins |-> checkins])} :
          /\ cache' = w.cache
          /\ metric' = [ called  |-> TRUE, kid |-> k, month |-> YearMonth(d),
                          monthly |-> monthly_total(df_checkins(w), k, YearMonth(d)),
                          alltime |-> total_points_alltime(df_checkins(w), k) ]
    /\ UNCHANGED <<kids, goals, hasAudience, checkins, ss, pc, loc, today, clock, gdf, armed, last, rt, old>>

NextTotals ==
    \/ \E k \in {K1, K2}, i \in 1..Len(DATES) : TotalsView(k, DATES[i])
    \/ CacheExpire

SpecTotals == InitTotals /\ [][NextTotals]_vars

\* the row counts for kid k: it is the kid's, self-checked and approved
Counts(r, k) == r.kid_id = k /\ CellTruthy(r.child_checked) /\ CellTruthy(r.parent_approved)

\* the row's date lies in the month written ym: it is a day of DATES of that
\* year and month
InMonth(r, ym) ==
    \E i \in 1..Len(DATES) : YearMonth(DATES[i]) = ym /\ r.date = Iso(DATES[i])

RECURSIVE SumRows(_)
SumRows(S) ==
    IF S = {} THEN 0
    ELSE LET i == CHOOSE x \in S : TRUE
         IN  ToInt(checkins[i].points) + SumRows(S \ {i})

\* C1: total_points_alltime(kid) is the sum of the points of the kid's rows that
\* are both self-checked and approved, monthly_total(kid, month) the same sum
\* over the rows dated in that month; a row with one flag only adds nothing,
\* and both are 0 on an empty table.
C1Theorem ==
    metric.called =>
        /\ metric.alltime
              = SumRows({i \in 1..Len(checkins) : Counts(checkins[i], metric.kid)})
        /\ metric.monthly
              = SumRows({i \in 1..Len(checkins) :
                            Counts(checkins[i], metric.kid) /\ InMonth(checkins[i], metric.month)})
        /\ checkins = <<>> => (metric.alltime = 0 /\ metric.monthly = 0)

\* the kid has an approved row in the month asked for and a row that lacks a
\* flag: the month's total is the points of the first
C1Witness ==
    /\ metric.called
    /\ metric.monthly > 0
    /\ \E i \in 1..Len(checkins) :
          /\ checkins[i].kid_id = metric.kid
          /\ ~Counts(checkins[i], metric.kid)

-----------------------------------------------------------------------------
(* Goal targeting: goals_for_kid over goals tabs typed by hand *)

MaxEntries == 2   \* entries of a kid_id list typed into a cell

\* what an author types between the commas: an entry, bare or with blanks
\* around it; cores hold no comma and no blank
CORES ==
    { K1, K2, <<"K","1">>, <<"k","1","1">>, ALL, <<"A","l","L">>, <<"a","l">>, <<>> }

PADS == { <<>>, <<" ">> }
SEPS == { COMMA, FWCOMMA }

\* the cell text of the entries es (cores), each padded by pad on both
\* sides, joined by the separators seps
RECURSIVE JoinEntries(_, _, _)
JoinEntries(es, pad, seps) ==
    IF Len(es) = 1 THEN pad \o es[1] \o pad
    ELSE (pad \o es[1] \o pad) \o <<seps[1]>> \o JoinEntries(Tail(es), pad, Tail(seps))

\* a goals row whose kid_id cell lists the entries es; the row keeps es as
\* typed (kid_list), which no code reads
TypedGoal(es, pad, seps, active, audience) ==
    [ id |-> G1, title |-> <<"R","u","n">>, points |-> Str(3), active |-> active,
      kid_id |-> JoinEntries(es, pad, seps), audience |-> audience, kid_list |-> es ]

ACTIVE_CELLS ==
    { BoolCell(TRUE), <<"1">>, <<"Y","e","s">>, BoolCell(FALSE), <<"o","n">>,
      <<" ","1">>, <<>> }

AUDIENCE_CELLS ==
    { BOTH, <<"B","o","t","h"," ">>, CHILD, <<" ","P","A","R","E","N","T">>,
      <<"k","i","d">>, <<>> }

VIEWERS == { CHILD, PARENT, BOTH }
KID_IDS == { K1, K2 }

\* the tabs goal targeting is tried on: every kid_id list of up to MaxEntries
\* entries on an active goal for everyone; every active and audience cell on
\* three kid_id cells; the tab seed_if_empty writes
InitGoals ==
    /\ \/ /\ hasAudience = FALSE
          /\ \E n \in 1..MaxEntries, pad \in PADS :
               \E es \in [1..n -> CORES], seps \in [1..(n-1) -> SEPS] :
                   goals = << TypedGoal(es, pad, seps, BoolCell(TRUE), <<>>) >>
       \/ /\ hasAudience \in BOOLEAN
          /\ \E c \in {ALL, K1, <<>>}, act \in ACTIVE_CELLS, aud \in AUDIENCE_CELLS :
                   goals = << TypedGoal(<<c>>, <<>>, <<>>, act, aud) >>
       \/ /\ hasAudience = FALSE
          /\ goals = DefaultGoals
    /\ kids = DefaultKids
    /\ checkins = <<>>
    /\ cache = NoCache
    /\ ss = [s \in SESSIONS |-> InitSession]
    /\ pc = [s \in SESSIONS |-> "idle"]
    /\ loc = [s \in SESSIONS |-> NoLoc]
    /\ today = DATES[1]
    /\ clock = 1
    /\ gdf = NoGdf
    /\ armed = {}
    /\ last = NoLast
    /\ metric = NoMetric
    /\ rt = NoRetry
    /\ old = NoDb

\* goals_for_kid(kid_id, viewer) on the loaded goals tab
GoalsView(kid_id, viewer) ==
    /\ gdf' = [ called |-> TRUE, kid |-> kid_id, viewer |-> viewer,
                ids |-> GoalIds(goals_for_kid(df_goals(goals, hasAudience), kid_id, viewer)) ]
    /\ UNCHANGED <<kids, goals, hasAudience, checkins, cache, ss, pc, loc, today, clock, armed, last, metric, rt, old>>

NextGoals == \E k \in KID_IDS, v \in VIEWERS : GoalsView(k, v)

SpecGoals == InitGoals /\ [][NextGoals]_vars

\* the rows of the goals tab whose id the last goals_for_kid call returned
Returned(i) == \E j \in 1..Len(gdf.ids) : gdf.ids[j] = goals[i].id

\* the audience of a row as the claim reads it: the cell trimmed and
\* lower-cased, "both" when the tab has no audience column
AudienceOf(r) == IF hasAudience THEN Lower(Strip(r.audience)) ELSE BOTH

Admitted(r, viewer) == CellTruthy(r.active) /\ AudienceOf(r) \in {BOTH, viewer}

\* C3: a goal whose kid_id cell is empty is returned for every kid, when it is
\* active and its audience admits the viewer (the seeded goals among them).
C3Claim ==
    gdf.called =>
        \A i \in 1..Len(goals) :
            (goals[i].kid_id = <<>> /\ Admitted(goals[i], gdf.viewer)) => Returned(i)

\* the typed list names the kid: an entry is "all" in any letter case, or is
\* the kid's id
ListNames(es, kid_id) == \E j \in 1..Len(es) : Lower(es[j]) = ALL \/ es[j] = kid_id

HasEntry(es) == \E j \in 1..Len(es) : es[j] # <<>>

\* C4 as stated: for a goal whose kid_id cell is not empty, the goal is
\* returned exactly when its list has an "all" entry or the kid's id.
C4Claim ==
    gdf.called =>
        \A i \in 1..Len(goals) :
            ("kid_list" \in DOMAIN goals[i] /\ goals[i].kid_id # <<>>
                /\ Admitted(goals[i], gdf.viewer))
            => (Returned(i) <=> ListNames(goals[i].kid_list, gdf.kid))

\* C4 amended: for a goal whose kid_id list has at least one entry that is not
\* empty, the goal is returned exactly when the list has an "all" entry or the
\* kid's id; a cell of separators and blanks only makes the goal common.
C4Amended ==
    gdf.called =>
        \A i \in 1..Len(goals) :
            ("kid_list" \in DOMAIN goals[i] /\ Strip(goals[i].kid_id) # <<>>
                /\ Admitted(goals[i], gdf.viewer))
            => (Returned(i) <=>
                    (HasEntry(goals[i].kid_list) => ListNames(goals[i].kid_list, gdf.kid)))

\* a list of two entries with blanks and a full-width comma was read for a
\* kid it does not name, and the goal was withheld
C4Witness ==
    /\ gdf.called
    /\ \E i \in 1..Len(goals) :
        /\ "kid_list" \in DOMAIN goals[i]
        /\ Len(goals[i].kid_list) = 2
        /\ \E j \in 1..Len(goals[i].kid_id) : goals[i].kid_id[j] = FWCOMMA
        /\ \E j \in 1..Len(goals[i].kid_id) : goals[i].kid_id[j] = " "
        /\ HasEntry(goals[i].kid_list)
        /\ ~ListNames(goals[i].kid_list, gdf.kid)
        /\ ~Returned(i)

\* C5: goals_for_kid returns only goals that are active (true, 1 or yes) and
\* whose audience, trimmed and lower-cased, is "both" or the viewer; without an
\* audience column every goal counts as "both".
C5Theorem ==
    gdf.called =>
        \A i \in 1..Len(goals) : Returned(i) => Admitted(goals[i], gdf.viewer)

\* an active goal whose audience cell reads " PARENT" was asked for the child
\* view and withheld
C5Witness ==
    /\ gdf.called /\ hasAudience /\ gdf.viewer = CHILD
    /\ \E i \in 1..Len(goals) :
          /\ goals[i].audience = <<" ","P","A","R","E","N","T">>
          /\ CellTruthy(goals[i].active)
          /\ ~Returned(i)

-----------------------------------------------------------------------------
(* The retry wrapper.  A call of the wrapped function ends in a value or   *)
(* in an exception; an exception has a type and, when it carries a         *)
(* response, an HTTP status ({} is no status).  Outcomes are told apart by *)
(* the number of the call that produced them.                              *)

MaxTimes == 3     \* retry(times = n) is run for n up to MaxTimes

RETRIABLE == {"APIError", "RequestException", "TransportError", "TimeoutError"}

RETRY_STATUS == {429, 500, 502, 503, 504}

Ok(k) == [ok |-> TRUE, type |-> "", status |-> {}, at |-> k]

Err(type, status, k) == [ok |-> FALSE, type |-> type, status |-> status, at |-> k]

\* the exceptions the wrapped function raises in the model
FAILURES ==
    { <<"APIError", {429}>>, <<"APIError", {503}>>, <<"APIError", {404}>>,
      <<"APIError", {400}>>, <<"RequestException", {}>>, <<"RequestException", {500}>>,
      <<"RequestException", {403}>>, <<"TimeoutError", {}>>, <<"TransportError", {}>>,
      <<"ValueError", {}>>, <<"WorksheetNotFound", {503}>> }

Outcomes(k) == {Ok(k)} \cup {Err(f[1], f[2], k) : f \in FAILURES}

\* a variant that gives up on every 4xx status and on nothing else
FatalClient(status) == status # {} /\ \A x \in status : x \in 400..499

\* line 47: status and status not in (429, 500, 502, 503, 504)
Fatal(status) == status # {} /\ status # {0} /\ status \cap RETRY_STATUS = {}

\* raise last after a loop that never ran: last is None
NoneRaised == Err("TypeError", {}, 0)

\* the wrapper is entered: last = None, and range(times) may be empty
Begin(n) ==
    [ times |-> n, i |-> 0, state |-> IF n > 0 THEN "running" ELSE "raised",
      last |-> {}, out |-> IF n > 0 THEN {} ELSE {NoneRaised}, hist |-> <<>> ]

\* a variant whose loop runs one more time
AttemptOneMore(r, o) ==
    LET h == Append(r.hist, o)
    IN  IF o.ok THEN [r EXCEPT !.state = "returned", !.out = {o}, !.hist = h]
        ELSE IF o.type \notin RETRIABLE
        THEN [r EXCEPT !.state = "raised", !.out = {o}, !.hist = h]
        ELSE IF Fatal(o.status)
        THEN [r EXCEPT !.state = "raised", !.out = {o}, !.last = {o}, !.hist = h]
        ELSE IF r.i + 1 < r.times + 1
        THEN [r EXCEPT !.i = @ + 1, !.last = {o}, !.hist = h]
        ELSE [r EXCEPT !.i = @ + 1, !.state = "raised", !.out = {o}, !.last = {o}, !.hist = h]

\* one pass of the loop body with the call ending in o: return, an exception
\* that is not caught, raise, or sleep and go on; after the last pass, raise last
Attempt(r, o) ==
    LET h == Append(r.hist, o)
    IN  IF o.ok THEN [r EXCEPT !.state = "returned", !.out = {o}, !.hist = h]
        ELSE IF o.type \notin RETRIABLE
        THEN [r EXCEPT !.state = "raised", !.out = {o}, !.hist = h]
        ELSE IF Fatal(o.status)
        THEN [r EXCEPT !.state = "raised", !.out = {o}, !.last = {o}, !.hist = h]
        ELSE IF r.i + 1 < r.times
        THEN [r EXCEPT !.i = @ + 1, !.last = {o}, !.hist = h]
        ELSE [r EXCEPT !.i = @ + 1, !.state = "raised", !.out = {o}, !.last = {o}, !.hist = h]

InitRetry ==
    /\ kids = DefaultKids
    /\ goals = MainGoals
    /\ hasAudience = TRUE
    /\ checkins = <<>>
    /\ cache = NoCache
    /\ ss = [s \in SESSIONS |-> InitSession]
    /\ pc = [s \in SESSIONS |-> "idle"]
    /\ loc = [s \in SESSIONS |-> NoLoc]
    /\ today = DATES[1]
    /\ clock = 1
    /\ gdf = NoGdf
    /\ armed = {}
    /\ last = NoLast
    /\ metric = NoMetric
    /\ rt \in {Begin(n) : n \in 0..MaxTimes}
    /\ old = NoDb

\* the wrapper calls the wrapped function once more
RetryCall(o) ==
    /\ rt.state = "running"
    /\ rt' = Attempt(rt, o)
    /\ UNCHANGED <<kids, goals, hasAudience, checkins, cache, ss, pc, loc, today, clock, gdf, armed, last, metric, old>>

NextRetry == \E o \in Outcomes(Len(rt.hist) + 1) : RetryCall(o)

SpecRetry == InitRetry /\ [][NextRetry]_vars

\* every call of the wrapped function comes back
SpecRetryLive == SpecRetry /\ WF_vars(NextRetry)

Retriable(o) == ~o.ok /\ o.type \in RETRIABLE

C11Safe ==
    /\ Len(rt.hist) <= rt.times
    /\ rt.state = "running" => Len(rt.hist) < rt.times
    /\ \A k \in 1..Len(rt.hist) :
          rt.hist[k].ok => (k = Len(rt.hist) /\ rt.state = "returned" /\ rt.out = {rt.hist[k]})
    /\ (Len(rt.hist) = rt.times /\ \A k \in 1..Len(rt.hist) : Retriable(rt.hist[k]))
          => (rt.state = "raised" /\ rt.out = {rt.hist[rt.times]})

\* C11: with times = n >= 1 the wrapper ends, after at most n calls: it returns
\* the value of the first call that succeeds and calls no more, and when all
\* n calls fail with a retriable error it raises the error of the n-th.
C11Theorem == [](rt.times >= 1 => C11Safe) /\ <>(rt.state # "running")

\* three calls were allowed, all three failed with retriable errors, and the
\* wrapper raised the error of the third
C11Witness ==
    /\ rt.times = 3
    /\ Len(rt.hist) = 3
    /\ \A k \in 1..3 : Retriable(rt.hist[k])
    /\ rt.state = "raised"
    /\ rt.out = {rt.hist[3]}

GivesUp(o) == o.status # {} /\ o.status \cap {429, 500, 502, 503, 504} = {}

\* C12: a retriable-type error with a status other than 429, 500, 502, 503,
\* 504 is raised on the attempt where it occurs and no further call is made;
\* one with such a status or with none is followed by another attempt while
\* attempts remain; an error of another type is raised where it occurs.
C12Theorem ==
    \A k \in 1..Len(rt.hist) :
        LET o == rt.hist[k]
        IN  /\ (Retriable(o) /\ GivesUp(o))
                => (k = Len(rt.hist) /\ rt.state = "raised" /\ rt.out = {o})
            /\ (~o.ok /\ ~Retriable(o))
                => (k = Len(rt.hist) /\ rt.state = "raised" /\ rt.out = {o})
            /\ (Retriable(o) /\ ~GivesUp(o) /\ k < rt.times)
                => (k < Len(rt.hist) \/ rt.state = "running")

\* a 429 was retried and the 404 that followed was raised at once, with an
\* attempt left
C12Witness ==
    /\ rt.times = 3
    /\ Len(rt.hist) = 2
    /\ rt.hist[1].status = {429}
    /\ rt.hist[2].status = {404} /\ Retriable(rt.hist[2])
    /\ rt.state = "raised"
    /\ rt.out = {rt.hist[2]}

-----------------------------------------------------------------------------
(* Bulk approval.  The parent view is opened on a check-ins tab drawn from *)
(* the rows below and the bulk button is pressed.                          *)

BULK_ROWS ==
    { OldRow(DATES[1], K1, G1, TRUE, FALSE), OldRow(DATES[1], K1, G2, TRUE, FALSE),
      OldRow(DATES[1], K1, G1, FALSE, FALSE), OldRow(DATES[1], K1, G2, FALSE, FALSE),
      OldRow(DATES[1], K1, G1, TRUE, TRUE),
      OldRow(DATES[1], K2, G1, TRUE, FALSE), OldRow(DATES[2], K1, G1, TRUE, FALSE) }

InitBulk == \E n \in 0..MaxRows : \E sheet \in [1..n -> BULK_ROWS] : InitWith(sheet)

NextBulk ==
    \/ \E in \in ParentInputs : BulkApprove(MainSession, in)
    \/ CacheExpire

SpecBulk == InitBulk /\ [][NextBulk]_vars

\* the displayed goals of the run with inputs in whose check-in for the
\* selected kid and the target date is self-checked and not approved
ToApprove(in) ==
    LET w == Opened(World(MainSession, in))
        ids == GoalIds(Shown(w))
    IN  { ids[i] : i \in { j \in 1..Len(ids) :
            check_state(LoadCheckins(checkins), Iso(in.target), SelKid(w).id, ids[j])
                = <<TRUE, FALSE>> } }

\* row j is the row the views read for a check-in of ToApprove(in)
IsApprovedRow(in, j) ==
    LET w == Opened(World(MainSession, in))
    IN  \E g \in ToApprove(in) :
            j = FirstHit(LoadCheckins(checkins), Iso(in.target), SelKid(w).id, g)

BulkPost(in) ==
    LET w == Opened(World(MainSession, in))
    IN  /\ \A g \in ToApprove(in) :
              check_state(LoadCheckins(checkins'), Iso(in.target), SelKid(w).id, g)
                  = <<TRUE, TRUE>>
        /\ Len(checkins') = Len(checkins)
        /\ \A j \in 1..Len(checkins) :
              IF IsApprovedRow(in, j)
              THEN /\ Fixed(checkins'[j]) = Fixed(checkins[j])
                   /\ checkins'[j].child_checked = checkins[j].child_checked
                   /\ checkins'[j].parent_approved = BoolCell(TRUE)
              ELSE checkins'[j] = checkins[j]

\* a press of the bulk button with inputs in would leave the sheet as it is
BulkIdle(in) ==
    LET w == Opened(World(MainSession, in))
    IN  /\ ~w.stopped
        /\ ~InPendingList(w)
        /\ BulkButton(w, now_iso(clock)).checkins = checkins

\* C13: a bulk approval approves the check-ins of the displayed goals of the
\* selected kid and target date that are self-checked and not approved, and
\* writes nothing else: no row is created, rows of goals not self-checked, of
\* goals already approved, of goals not displayed, of other kids and of other
\* dates stay as they are; it writes nothing only when no check-in is to be
\* approved.
C13Theorem ==
    /\ [][ checkins' # checkins =>
              \A in \in ParentInputs : BulkApprove(MainSession, in) => BulkPost(in) ]_vars
    /\ [](\A in \in ParentInputs : BulkIdle(in) => ToApprove(in) = {})

\* one press approved two check-ins of a kid and a day
C13Witness ==
    \E i, j \in 1..Len(checkins) :
        /\ checkins[i].goal_id = G1 /\ checkins[j].goal_id = G2
        /\ checkins[i].kid_id = checkins[j].kid_id
        /\ checkins[i].date = checkins[j].date
        /\ checkins[i].parent_approved = BoolCell(TRUE)
        /\ checkins[j].parent_approved = BoolCell(TRUE)
        /\ checkins[i].updated_at = checkins[j].updated_at
        /\ checkins[i].updated_at # now_iso(0)

-----------------------------------------------------------------------------
(* Who raises a total *)

\* total_points_alltime of kid k on a sheet
TotalOn(sheet, k) == total_points_alltime(LoadCheckins(sheet), k)

\* monthly_total of kid k on a sheet, for the month of day d
MonthOn(sheet, k, d) == monthly_total(LoadCheckins(sheet), k, YearMonth(d))

\* C14: a step that raises a total of a kid is a parent-view approval: the
\* call that wrote was given set_parent, it is not a self-check of the child
\* view.
C14Claim ==
    [][ checkins' # checkins =>
          \A k \in {K1, K2} :
              (\/ TotalOn(checkins', k) > TotalOn(checkins, k)
               \/ \E i \in 1..Len(DATES) :
                     MonthOn(checkins', k, DATES[i]) > MonthOn(checkins, k, DATES[i]))
              => Given(last'.a.set_parent)
      ]_vars

-----------------------------------------------------------------------------
(* The SQLite variant, app_old.py.  The database is the record old: the    *)
(* tables kids, goals and checkins in rowid order, the AUTOINCREMENT       *)
(* counter seq of checkins, and the day of date.today().  One script runs  *)
(* at a time in the modelled session: init_db, seed_if_empty and the       *)
(* SELECTs of ensure_today_checkins are one step, its INSERTs and commit   *)
(* are the next one (the first INSERT opens the write transaction, which   *)
(* no other connection can write through before the commit).  Between the  *)
(* two steps, and between runs, other sessions tick checkboxes, approve,   *)
(* and switch kids and goals on and off; each of these is one UPDATE.      *)
(* add_kid and add_goal are not modelled: the tables keep their seed rows. *)

\* how many updates of other sessions a behaviour holds
MaxOldOps == 2

appVars == <<kids, goals, hasAudience, checkins, cache, ss, pc, loc, today, clock,
             gdf, armed, last, metric, rt>>

SEED_KIDS == << [name |-> "haruto", grade |-> "4", active |-> 1],
                [name |-> "mio", grade |-> "2", active |-> 1],
                [name |-> "sota", grade |-> "0", active |-> 1] >>

SEED_GOALS == << [title |-> "homework", base_points |-> 5, category |-> "study", active |-> 1],
                 [title |-> "teeth", base_points |-> 2, category |-> "life", active |-> 1],
                 [title |-> "running", base_points |-> 3, category |-> "sport", active |-> 1] >>

\* seed_if_empty of the SQLite variant: each table is seeded when it has no row
DbSeed(db) ==
    [db EXCEPT !.kids = IF Len(@) = 0 THEN SEED_KIDS ELSE @,
               !.goals = IF Len(@) = 0 THEN SEED_GOALS ELSE @]

\* SELECT id FROM t WHERE active=1, in rowid order
ActiveIds(tbl) == SelectSeq([i \in 1..Len(tbl) |-> i], LAMBDA i : tbl[i].active = 1)

\* the columns of UNIQUE(d, kid_id, goal_id)
SameKey(r, d, kid_id, goal_id) == r.d = d /\ r.kid_id = kid_id /\ r.goal_id = goal_id

\* a variant of the INSERT that replaces the row of the key
InsertOrReplace(db, d, kid_id, goal_id) ==
    LET gone == {i \in 1..Len(db.checkins) : SameKey(db.checkins[i], d, kid_id, goal_id)}
        kept == SelectSeq(db.checkins, LAMBDA r : ~SameKey(r, d, kid_id, goal_id))
    IN  [db EXCEPT !.checkins = Append(kept, [id |-> db.seq + 1, d |-> d, kid_id |-> kid_id,
                                               goal_id |-> goal_id, self_checked |-> 0,
                                               parent_approved |-> 0]),
                   !.seq = @ + 1,
                   !.hit = @ \cup {db.checkins[i].id : i \in gone},
                   !.made = IF gone = {} THEN @ \cup {db.seq + 1} ELSE @]

\* INSERT OR IGNORE INTO checkins ... VALUES (d, kid_id, goal_id, 0, 0)
InsertOrIgnore(db, d, kid_id, goal_id) ==
    LET hits == {i \in 1..Len(db.checkins) : SameKey(db.checkins[i], d, kid_id, goal_id)}
    IN  IF hits # {}
        THEN [db EXCEPT !.hit = @ \cup {db.checkins[i].id : i \in hits}]
        ELSE [db EXCEPT !.checkins = Append(@, [id |-> db.seq + 1, d |-> d, kid_id |-> kid_id,
                                                goal_id |-> goal_id, self_checked |-> 0,
                                                parent_approved |-> 0]),
                        !.seq = @ + 1,
                        !.made = @ \cup {db.seq + 1}]

\* the pairs of the nested loops, in the order the loops visit them
Pairs(kid_ids, goal_ids) ==
    [i \in 1..(Len(kid_ids) * Len(goal_ids)) |->
        << kid_ids[((i - 1) \div Len(goal_ids)) + 1], goal_ids[((i - 1) % Len(goal_ids)) + 1] >>]

RECURSIVE InsertAll(_, _, _)
\* the loops of ensure_today_checkins
InsertAll(db, d, pairs) ==
    IF pairs = <<>> THEN db
    ELSE InsertAll(InsertOrIgnore(db, d, Head(pairs)[1], Head(pairs)[2]), d, Tail(pairs))

\* ensure_today_checkins up to its loops: today and the two SELECTs
EnsureRead(db) ==
    [db EXCEPT !.pc = "read", !.d = Iso(DATES[db.day]),
               !.kid_ids = ActiveIds(db.kids), !.goal_ids = ActiveIds(db.goals),
               !.hit = {}, !.made = {}]

\* ensure_today_checkins from its loops to the commit
ensure_today_checkins(db) == InsertAll(db, db.d, Pairs(db.kid_ids, db.goal_ids))

InitOld ==
    /\ InitWith(<<>>)

\* a script run starts: init_db, seed_if_empty, and the call of line 180;
\* press tells whether the run comes from a press of the regenerate button
ScriptStart(press) ==
    /\ old.pc = "idle"
    /\ old' = EnsureRead([DbSeed(old) EXCEPT !.left = IF press THEN 1 ELSE 0])
    /\ UNCHANGED appVars

\* the call in progress inserts and commits
EnsureInsert ==
    /\ old.pc = "read"
    /\ old' = [ensure_today_checkins(old) EXCEPT !.pc = IF old.left > 0 THEN "button" ELSE "idle"]
    /\ UNCHANGED appVars

\* the run reaches the pressed regenerate button: the second call of the run
Regenerate ==
    /\ old.pc = "button"
    /\ old' = EnsureRead([old EXCEPT !.left = 0])
    /\ UNCHANGED appVars

\* child view: the checkbox of a row of today differs from the stored flag
SelfCheck(i) ==
    /\ old.n < MaxOldOps
    /\ old.checkins[i].d = Iso(DATES[old.day])
    /\ old.kids[old.checkins[i].kid_id].active = 1
    /\ old' = [old EXCEPT !.checkins[i].self_checked = 1 - @, !.n = @ + 1]
    /\ UNCHANGED appVars

\* parent view: the approve button of a pending row
OldApprove(i) ==
    /\ old.n < MaxOldOps
    /\ old.checkins[i].self_checked = 1
    /\ old.checkins[i].parent_approved = 0
    /\ old' = [old EXCEPT !.checkins[i].parent_approved = 1, !.n = @ + 1]
    /\ UNCHANGED appVars

\* parent view: the checkbox of a kid is switched
ToggleKid(k) ==
    /\ old.n < MaxOldOps
    /\ old' = [old EXCEPT !.kids[k].active = 1 - @, !.n = @ + 1]
    /\ UNCHANGED appVars

\* parent view: the checkbox of a goal is switched
ToggleGoal(g) ==
    /\ old.n < MaxOldOps
    /\ old' = [old EXCEPT !.goals[g].active = 1 - @, !.n = @ + 1]
    /\ UNCHANGED appVars

\* date.today() moves on
OldAdvanceDay ==
    /\ old.day < Len(DATES)
    /\ old' = [old EXCEPT !.day = @ + 1]
    /\ UNCHANGED appVars

NextOld ==
    \/ \E press \in BOOLEAN : ScriptStart(press)
    \/ EnsureInsert
    \/ Regenerate
    \/ \E i \in 1..Len(old.checkins) : SelfCheck(i)
    \/ \E i \in 1..Len(old.checkins) : OldApprove(i)
    \/ \E k \in 1..Len(old.kids) : ToggleKid(k)
    \/ \E g \in 1..Len(old.goals) : ToggleGoal(g)
    \/ OldAdvanceDay

SpecOld == InitOld /\ [][NextOld]_vars

DbRows(db) == {db.checkins[i] : i \in 1..Len(db.checkins)}

IdsOf(ids) == {ids[i] : i \in 1..Len(ids)}

\* no two rows of the table have the same (d, kid_id, goal_id)
OldNoDup ==
    \A i, j \in 1..Len(old.checkins) :
        i # j => ~SameKey(old.checkins[i], old.checkins[j].d,
                          old.checkins[j].kid_id, old.checkins[j].goal_id)

\* this step is the end of a call of ensure_today_checkins
EnsureDone == old.pc = "read" /\ old'.pc # "read"

\* what a call leaves: one row for each pair it read as active, on its day;
\* every row it found, as it was; new rows only for keys without a row, with
\* both flags 0
EnsurePost ==
    /\ \A k \in IdsOf(old.kid_ids) : \A g \in IdsOf(old.goal_ids) :
          Cardinality({i \in 1..Len(old'.checkins) : SameKey(old'.checkins[i], old.d, k, g)}) = 1
    /\ \A r \in DbRows(old) : r \in DbRows(old')
    /\ \A r \in DbRows(old') \ DbRows(old) :
          /\ r.self_checked = 0 /\ r.parent_approved = 0
          /\ r.d = old.d /\ r.kid_id \in IdsOf(old.kid_ids) /\ r.goal_id \in IdsOf(old.goal_ids)
          /\ \A q \in DbRows(old) : ~SameKey(q, r.d, r.kid_id, r.goal_id)

\* C15: in the SQLite variant, every call of ensure_today_checkins, from the
\* start of a run or from the regenerate button, with self-checks and
\* approvals in between, leaves exactly one row for each (today, active kid,
\* active goal), keeps every row it found with its self_checked and
\* parent_approved, and creates rows only for keys that had none, with both
\* flags 0; the table never holds two rows with the same (d, kid_id, goal_id).
C15Theorem == [][EnsureDone => EnsurePost]_vars /\ []OldNoDup

\* a call has just ended that found a self-checked, approved row of its day
\* and left it so
C15Witness ==
    /\ old.pc # "read"
    /\ \E r \in DbRows(old) :
          r.id \in old.hit /\ r.self_checked = 1 /\ r.parent_approved = 1 /\ r.d = old.d

=============================================================================
